---- MODULE Spec2Model ----
(***************************************************************************)
(* y-pydantic: Mirror Bindings (bindings.py) that replay the change        *)
(* notifications of a CRDT document into plain models, and the Replica     *)
(* Pool (clients.py) that fans binary update payloads out to its clients.  *)
(*                                                                         *)
(* The CRDT engine (y_py) is an external library.  It is modelled at the   *)
(* places where the source calls it: a document is a set of integrated     *)
(* items ordered by a replicated-growable-array rule, a payload is a set   *)
(* of items plus a delete set, and a transaction that changed a text       *)
(* container notifies the container's observers with a delta.              *)
(***************************************************************************)
EXTENDS Integers, Sequences, FiniteSets, TLC

(***************************************************************************)
(* Bounds of the model.                                                    *)
(***************************************************************************)
MaxClients == 2
MaxOps == 2
MaxDepth == 6
MaxDeltas == 3
MaxItems == 4

Pools == {"A", "B"}
Chunks == {<<"h", "i">>}

(***************************************************************************)
(* Python values.  A value is a record of a type tag, a character sequence *)
(* (str) and a number (the number itself, the truth value of a bool, the   *)
(* number of entries of a list or dict).                                   *)
(***************************************************************************)
Str(s) == [t |-> "str", s |-> s, n |-> 0]
Num(n) == [t |-> "num", s |-> <<>>, n |-> n]
Bool(b) == [t |-> "bool", s |-> <<>>, n |-> IF b THEN 1 ELSE 0]
Dict(n) == [t |-> "dict", s |-> <<>>, n |-> n]
\* a list, with its elements
List(seq) == [t |-> "list", s |-> seq, n |-> 0]
PyNone == [t |-> "none", s |-> <<>>, n |-> 0]
NoneInt == -1

\* bool(v) of a Python value, as `if delta.insert:` evaluates it
Truthy(v) ==
    CASE v.t = "str" -> Len(v.s) > 0
      [] v.t = "num" -> v.n # 0
      [] v.t = "bool" -> v.n = 1
      [] v.t = "dict" -> v.n > 0
      [] v.t = "list" -> Len(v.s) > 0
      [] v.t = "none" -> FALSE
      [] OTHER -> TRUE

\* bool(n) of an Optional[int]: None and 0 are both false
TruthyInt(n) == n # NoneInt /\ n # 0

\* a dict is a set of <<key, value>> pairs with distinct keys
EmptyDict == {}
DictKeys(d) == {p[1] : p \in d}
\* dict.update(e)
DictUpdate(d, e) == {p \in d : p[1] \notin DictKeys(e)} \cup e
\* d[k] for a key that is present, d[k] = v, and d without k
DictGet(d, k) == (CHOOSE p \in d : p[1] = k)[2]
DictSet(d, k, v) == {p \in d : p[1] # k} \cup {<<k, v>>}
DictDel(d, k) == {p \in d : p[1] # k}

\* a container handle of the engine (Y.YText, Y.YArray, Y.YMap) and the
\* binding that wraps one
YHandle(kind) == [t |-> kind, s |-> <<>>, n |-> 0]

(***************************************************************************)
(* bindings.py: Delta, Event, TextItem, TextModel                          *)
(***************************************************************************)
Delta(ins, ret, del, attrs) ==
    [insert |-> ins, retain |-> ret, delete |-> del, attributes |-> attrs]
Insert(v, attrs) == Delta(v, NoneInt, NoneInt, attrs)
Retain(n, attrs) == Delta(PyNone, n, NoneInt, attrs)
Delete(n) == Delta(PyNone, NoneInt, n, EmptyDict)

TextItem(v, attrs) == [value |-> v, attributes |-> attrs]
TextModel == [items |-> <<>>, deleted |-> <<>>]

\* list.insert(idx, x): an index past the end appends, it never raises
ListInsert(s, idx, x) ==
    IF idx >= Len(s) THEN Append(s, x)
    ELSE SubSeq(s, 1, idx) \o <<x>> \o SubSeq(s, idx + 1, Len(s))

\* list.pop(idx) for 0 <= idx < len
ListPop(s, idx) == SubSeq(s, 1, idx) \o SubSeq(s, idx + 2, Len(s))

RECURSIVE Concat(_)
Concat(ss) == IF ss = <<>> THEN <<>> ELSE Head(ss) \o Concat(Tail(ss))

\* TextModel.plain_text: "".join of the values that are str
plain_text(model) ==
    Concat([k \in 1..Len(model.items) |->
              IF model.items[k].value.t = "str" THEN model.items[k].value.s ELSE <<>>])

\* the walk state of apply_event: the model, the cursor and the exception raised
Walk(model, idx, err) ==
    [items |-> model.items, deleted |-> model.deleted, idx |-> idx, err |-> err]

\* for c in delta.insert: items.insert(idx, TextItem(c, attributes.copy())); idx += 1
RECURSIVE InsertChars(_, _, _)
InsertChars(w, chars, attrs) ==
    IF chars = <<>> THEN w
    ELSE InsertChars([w EXCEPT !.items = ListInsert(@, w.idx, TextItem(Str(<<Head(chars)>>), attrs)),
                               !.idx = @ + 1],
                     Tail(chars), attrs)

\* mutant: the items share their attributes dict with the items inserted with
\* the same dict, so update() on one shows in all of them
RECURSIVE RetainLoop_shared(_, _, _)
RetainLoop_shared(w, n, attrs) ==
    IF n = 0 THEN w
    ELSE IF w.idx >= Len(w.items) THEN [w EXCEPT !.err = "IndexError"]
    ELSE RetainLoop_shared(
             [w EXCEPT !.items = [k \in DOMAIN w.items |->
                                    IF w.items[k].attributes = w.items[w.idx + 1].attributes
                                    THEN [w.items[k] EXCEPT !.attributes = DictUpdate(@, attrs)]
                                    ELSE w.items[k]],
                       !.idx = @ + 1],
             n - 1, attrs)

\* for _ in range(delta.retain): items[idx].attributes.update(attributes); idx += 1
RECURSIVE RetainLoop(_, _, _)
RetainLoop(w, n, attrs) ==
    IF n = 0 THEN w
    ELSE IF w.idx >= Len(w.items) THEN [w EXCEPT !.err = "IndexError"]
    ELSE RetainLoop([w EXCEPT !.items[w.idx + 1].attributes = DictUpdate(@, attrs),
                              !.idx = @ + 1],
                    n - 1, attrs)

\* mutant: the item removed goes to the front of deleted
RECURSIVE DeleteLoop_front(_, _)
DeleteLoop_front(w, n) ==
    IF n = 0 THEN w
    ELSE IF w.idx >= Len(w.items) THEN [w EXCEPT !.err = "IndexError"]
    ELSE DeleteLoop_front([w EXCEPT !.items = ListPop(@, w.idx),
                                    !.deleted = <<w.items[w.idx + 1]>> \o @],
                          n - 1)

\* mutant: the cursor moves on after each item it removes
RECURSIVE DeleteLoop_advance(_, _)
DeleteLoop_advance(w, n) ==
    IF n = 0 THEN w
    ELSE IF w.idx >= Len(w.items) THEN [w EXCEPT !.err = "IndexError"]
    ELSE DeleteLoop_advance([w EXCEPT !.items = ListPop(@, w.idx),
                                      !.deleted = Append(@, w.items[w.idx + 1]),
                                      !.idx = @ + 1],
                            n - 1)

\* for _ in range(delta.delete): deleted.append(items.pop(idx))
RECURSIVE DeleteLoop(_, _)
DeleteLoop(w, n) ==
    IF n = 0 THEN w
    ELSE IF w.idx >= Len(w.items) THEN [w EXCEPT !.err = "IndexError"]
    ELSE DeleteLoop([w EXCEPT !.items = ListPop(@, w.idx),
                              !.deleted = Append(@, w.items[w.idx + 1])],
                    n - 1)

\* one iteration of the loop over event.deltas
ApplyDelta(w, delta) ==
    IF Truthy(delta.insert) THEN
        IF delta.insert.t = "str" THEN InsertChars(w, delta.insert.s, delta.attributes)
        ELSE [w EXCEPT !.items = ListInsert(@, w.idx, TextItem(delta.insert, delta.attributes)),
                       !.idx = @ + 1]
    ELSE IF TruthyInt(delta.retain) THEN RetainLoop(w, delta.retain, delta.attributes)
    ELSE IF TruthyInt(delta.delete) THEN DeleteLoop(w, delta.delete)
    ELSE w

\* the loop over event.deltas; an exception ends it and leaves what was done
RECURSIVE ApplyDeltas(_, _)
ApplyDeltas(w, deltas) ==
    IF deltas = <<>> \/ w.err # "" THEN w
    ELSE ApplyDeltas(ApplyDelta(w, Head(deltas)), Tail(deltas))

\* TextModel.apply_event: the walk from idx = 0
apply_event(model, event) == ApplyDeltas(Walk(model, 0, ""), event)

\* mutant: the event is recorded but never replayed on the model
TextBinding_obs_norelay(me, event) == [me EXCEPT !.events = Append(@, event)]

\* TextBinding.obs: record the event, replay it on the model
TextBinding_obs(me, event) ==
    LET w == apply_event(me.model, event)
    IN [me EXCEPT !.events = Append(@, event),
                  !.model = [items |-> w.items, deleted |-> w.deleted],
                  !.raised = IF w.err # "" THEN w.err ELSE @]

(***************************************************************************)
(* bindings.py: KeyChange, MapModel, MapBinding.obs.  event.keys is a dict: *)
(* a sequence of <<key, change>> with distinct keys, in iteration order.   *)
(***************************************************************************)
KeyChange(action, oldValue, newValue) ==
    [action |-> action, oldValue |-> oldValue, newValue |-> newValue]
MapModel == [items |-> EmptyDict, deleted |-> EmptyDict]

\* mutant: the value is stored as it came
CastBinding_raw(v) == v

\* Cast YText / YArray / YMap to bindings
CastBinding(v) ==
    CASE v.t = "YText" -> [v EXCEPT !.t = "TextBinding"]
      [] v.t = "YArray" -> [v EXCEPT !.t = "ArrayBinding"]
      [] v.t = "YMap" -> [v EXCEPT !.t = "MapBinding"]
      [] OTHER -> v

\* mutant: an add or update drops the record of the key's earlier delete
MapStep_restore(w, key, change) ==
    IF change.action = "delete" THEN
        IF key \notin DictKeys(w.items) THEN [w EXCEPT !.err = "KeyError"]
        ELSE [w EXCEPT !.deleted = DictSet(@, key, DictGet(w.items, key)),
                       !.items = DictDel(@, key)]
    ELSE [w EXCEPT !.items = DictSet(@, key, CastBinding(change.newValue)),
                   !.deleted = DictDel(@, key)]

\* one iteration of the loop over ev.keys.items(); items.pop(key) raises
\* KeyError for a key that is not there, before deleted is written
MapStep(w, key, change) ==
    IF change.action = "delete" THEN
        IF key \notin DictKeys(w.items) THEN [w EXCEPT !.err = "KeyError"]
        ELSE [w EXCEPT !.deleted = DictSet(@, key, DictGet(w.items, key)),
                       !.items = DictDel(@, key)]
    ELSE IF change.action \in {"add", "update"}
         THEN [w EXCEPT !.items = DictSet(@, key, CastBinding(change.newValue))]
         ELSE w

RECURSIVE MapLoop(_, _)
MapLoop(w, keys) ==
    IF keys = <<>> \/ w.err # "" THEN w
    ELSE MapLoop(MapStep(w, Head(keys)[1], Head(keys)[2]), Tail(keys))

\* MapBinding.obs: an exception ends the loop and leaves what was done
MapBinding_obs(model, keys) ==
    MapLoop([items |-> model.items, deleted |-> model.deleted, err |-> ""], keys)

(***************************************************************************)
(* bindings.py: ArrayModel, ArrayBinding.obs.  The payload of an insert    *)
(* delta is a list of values.                                              *)
(***************************************************************************)
ArrayModel == [items |-> <<>>, deleted |-> <<>>]

\* for item in delta.insert: cast, self.model.items.insert(idx, item); idx += 1
RECURSIVE ArrayInsertLoop(_, _)
ArrayInsertLoop(w, elems) ==
    IF elems = <<>> THEN w
    ELSE ArrayInsertLoop([w EXCEPT !.items = ListInsert(@, w.idx, CastBinding(Head(elems))),
                                   !.idx = @ + 1],
                         Tail(elems))

\* for _ in range(delta.delete): deleted.append(items.pop(idx))
RECURSIVE ArrayDeleteLoop(_, _)
ArrayDeleteLoop(w, n) ==
    IF n = 0 THEN w
    ELSE IF w.idx >= Len(w.items) THEN [w EXCEPT !.err = "IndexError"]
    ELSE ArrayDeleteLoop([w EXCEPT !.items = ListPop(@, w.idx),
                                   !.deleted = Append(@, w.items[w.idx + 1])],
                         n - 1)

\* the elements `for item in delta.insert` walks: those of a list, the
\* characters of a str, the keys of a dict
Elements(v) ==
    IF v.t = "str" THEN [k \in 1..Len(v.s) |-> Str(<<v.s[k]>>)]
    ELSE IF v.t = "dict" THEN [k \in 1..v.n |-> Str(<<"k">>)]
    ELSE v.s

\* one iteration of the loop over ev.deltas; a payload that cannot be
\* iterated raises TypeError, a retain only moves the cursor
ArrayDelta(w, delta) ==
    IF Truthy(delta.insert) THEN
        IF delta.insert.t \in {"list", "str", "dict"}
        THEN ArrayInsertLoop(w, Elements(delta.insert))
        ELSE [w EXCEPT !.err = "TypeError"]
    ELSE IF TruthyInt(delta.retain) THEN [w EXCEPT !.idx = @ + delta.retain]
    ELSE IF TruthyInt(delta.delete) THEN ArrayDeleteLoop(w, delta.delete)
    ELSE w

RECURSIVE ArrayDeltas(_, _)
ArrayDeltas(w, deltas) ==
    IF deltas = <<>> \/ w.err # "" THEN w
    ELSE ArrayDeltas(ArrayDelta(w, Head(deltas)), Tail(deltas))

\* ArrayBinding.obs: the walk from idx = 0
ArrayBinding_obs(model, event) == ArrayDeltas(Walk(model, 0, ""), event)

(***************************************************************************)
(* The engine, as clients.py and bindings.py call it.  An item is one      *)
(* character with its id <<timestamp, client>> and the id of the item it   *)
(* was inserted after; a document keeps the items it has integrated, the   *)
(* ids it has deleted, and what it received but cannot integrate yet.      *)
(***************************************************************************)
NilId == <<0, 0>>
EmptyUpdate == [structs |-> {}, ds |-> {}]
YDoc == [items |-> {}, dels |-> {}, pstructs |-> {}, pds |-> {}]

Ids(S) == {i.id : i \in S}
IdLess(a, b) == a[1] < b[1] \/ (a[1] = b[1] /\ a[2] < b[2])
MaxItem(S) == CHOOSE i \in S : \A j \in S : j = i \/ IdLess(j.id, i.id)

\* the document order of a set of items: each item is followed by the items
\* inserted after it, the latest first
RECURSIVE LinFrom(_, _)
LinFrom(S, kids) ==
    IF kids = {} THEN <<>>
    ELSE LET k == MaxItem(kids)
         IN <<k>> \o LinFrom(S, {i \in S : i.origin = k.id}) \o LinFrom(S, kids \ {k})
Lin(S) == LinFrom(S, {i \in S : i.origin = NilId})

\* the items of the text container that are not deleted, in order
Visible(doc) == SelectSeq(Lin(doc.items), LAMBDA i : i.id \notin doc.dels)
Chars(seq) == [k \in 1..Len(seq) |-> seq[k].val]

\* integrate every item whose origin is known, until none is left
RECURSIVE IntegrateStructs(_, _)
IntegrateStructs(items, pend) ==
    LET ready == {i \in pend : i.origin = NilId \/ i.origin \in Ids(items)}
    IN IF ready = {} THEN [items |-> items, pend |-> pend]
       ELSE IntegrateStructs(items \cup ready, pend \ ready)

\* txn.apply_v1(diff): what is known already is skipped, what cannot be
\* integrated yet is kept pending
ApplyUpdate(doc, diff) ==
    LET s == IntegrateStructs(doc.items, (doc.pstructs \cup diff.structs) \ doc.items)
        allds == doc.pds \cup diff.ds
        now == {d \in allds : d \in Ids(s.items)}
    IN [items |-> s.items, dels |-> doc.dels \cup now,
        pstructs |-> s.pend, pds |-> allds \ now]

\* mutant: the update of a transaction is the whole document
get_update_all(before, after) == [structs |-> after.items, ds |-> after.dels]

\* AfterTransactionEvent.get_update(): what the transaction changed
get_update(before, after) ==
    [structs |-> after.items \ before.items, ds |-> after.dels \ before.dels]

\* mutant: the diff leaves the deletes out
diff_v1_structs(doc, sv) == [structs |-> {i \in doc.items : i.id \notin sv}, ds |-> {}]

\* txn.state_vector_v1() and txn.diff_v1(state_vector)
state_vector_v1(doc) == Ids(doc.items)
diff_v1(doc, sv) == [structs |-> {i \in doc.items : i.id \notin sv}, ds |-> doc.dels]

\* YTextEvent.delta: one step per item of the container, equal steps merged,
\* a trailing retain dropped; empty when the container did not change
DeltaStep(before, after, it) ==
    LET was == it \in before.items /\ it.id \notin before.dels
        is == it.id \notin after.dels
    IN CASE was /\ is -> "retain"
         [] was /\ ~is -> "delete"
         [] ~was /\ is -> "insert"
         [] OTHER -> "skip"

DeltaPush(acc, step, it) ==
    LET n == Len(acc)
        last == IF n = 0 THEN Delete(0) ELSE acc[n]
    IN CASE step = "insert" ->
              IF n > 0 /\ last.insert # PyNone
              THEN [acc EXCEPT ![n].insert = Str(@.s \o <<it.val>>)]
              ELSE Append(acc, Insert(Str(<<it.val>>), EmptyDict))
         [] step = "retain" ->
              IF n > 0 /\ last.retain # NoneInt
              THEN [acc EXCEPT ![n].retain = @ + 1]
              ELSE Append(acc, Retain(1, EmptyDict))
         [] step = "delete" ->
              IF n > 0 /\ last.delete # NoneInt
              THEN [acc EXCEPT ![n].delete = @ + 1]
              ELSE Append(acc, Delete(1))
         [] OTHER -> acc

RECURSIVE DeltaFold(_, _, _, _)
DeltaFold(before, after, seq, acc) ==
    IF seq = <<>> THEN acc
    ELSE DeltaFold(before, after, Tail(seq),
                   DeltaPush(acc, DeltaStep(before, after, Head(seq)), Head(seq)))

YTextEvent_delta(before, after) ==
    LET d == DeltaFold(before, after, Lin(after.items), <<>>)
        n == Len(d)
        cut == IF n > 0 /\ d[n].retain # NoneInt THEN SubSeq(d, 1, n - 1) ELSE d
    IN cut

\* ytext.insert(txn, index, chunk): one item per character, the first after
\* the item at index - 1, each next one after the one before it
RECURSIVE NewItems(_, _, _, _)
NewItems(chunk, origin, ts, client) ==
    IF chunk = <<>> THEN {}
    ELSE {[id |-> <<ts, client>>, origin |-> origin, val |-> Head(chunk)]}
         \cup NewItems(Tail(chunk), <<ts, client>>, ts + 1, client)

SetMax(S) == IF S = {} THEN 0 ELSE CHOOSE x \in S : \A y \in S : y <= x

YText_insert(doc, client, index, chunk) ==
    LET vis == Visible(doc)
        origin == IF index = 0 THEN NilId ELSE vis[index].id
        ts == 1 + SetMax({i.id[1] : i \in doc.items})
    IN [structs |-> NewItems(chunk, origin, ts, client), ds |-> {}]

\* ytext.delete_range(txn, index, length)
YText_delete_range(doc, index, length) ==
    LET vis == Visible(doc)
    IN [structs |-> {}, ds |-> {vis[k].id : k \in (index + 1)..(index + length)}]

(***************************************************************************)
(* clients.py: SyncClient and ClientPool.  The state a handler works on is *)
(* st = [rep, clients, calls, overflow, deep]: the clients created so far,  *)
(* each pool's client list, the payloads ClientPool.sync was called with,  *)
(* whether the chain of nested sync calls went past MaxDepth, and how many *)
(* calls of sync were under way at most when sync was entered during the   *)
(* last call made from outside.                                            *)
(***************************************************************************)
\* SyncClient.__init__: a document, the pool, no binding attached yet
SyncClient(pool) ==
    [pool |-> pool, doc |-> YDoc, bound |-> FALSE, fresh |-> FALSE,
     model |-> TextModel, events |-> <<>>, raised |-> "",
     log |-> <<>>, logAtInit |-> 0,
     boot |-> [made |-> FALSE, has |-> FALSE, model |-> TextModel, doc |-> YDoc,
               ref |-> YDoc, alone |-> FALSE, sent |-> {}]]

RECURSIVE ClientPool_sync(_, _, _, _)

\* ClientPool.sync was entered with `diff`, depth calls of it being under way
Entered(st, diff, depth) ==
    [st EXCEPT !.calls = @ \cup {diff}, !.deep = IF depth > @ THEN depth ELSE @]

\* mutant: every update is passed on, the empty one too
SyncClient_sync_nofilter(st, r, diff, depth) ==
    ClientPool_sync(st, st.rep[r].pool, diff, depth)

\* SyncClient.sync: the after-transaction hook; the empty update is not passed on
SyncClient_sync(st, r, diff, depth) ==
    IF diff # EmptyUpdate THEN ClientPool_sync(st, st.rep[r].pool, diff, depth) ELSE st

\* the end of a transaction on client r's document that leaves it as
\* `after`: the text observer runs if the container changed (event is not
\* empty), then the after-transaction hook with the update upd
Committed(st, r, after, event, upd, depth) ==
    SyncClient_sync(
        [st EXCEPT !.rep[r] =
            [(IF @.bound /\ event # <<>> THEN TextBinding_obs(@, event) ELSE @)
                EXCEPT !.doc = after,
                       !.log = IF upd # EmptyUpdate THEN Append(@, upd) ELSE @]],
        r, upd, depth)

\* mutant: the observer is told what the payload holds, not what the
\* transaction changed
Replayed(st, r, diff, after, depth) ==
    Committed(st, r, after,
              YTextEvent_delta([st.rep[r].doc EXCEPT !.items = @ \ diff.structs,
                                                     !.dels = @ \ diff.ds], after),
              get_update(st.rep[r].doc, after), depth)

Commit_replay(st, r, diff, depth) ==
    Replayed(st, r, diff, ApplyUpdate(st.rep[r].doc, diff), depth)

\* a transaction that leaves the document as `after`, with its event and update
Transaction(st, r, after, depth) ==
    Committed(st, r, after, YTextEvent_delta(st.rep[r].doc, after),
              get_update(st.rep[r].doc, after), depth)

\* a transaction on client r's document that applies `diff`, committed
Commit(st, r, diff, depth) ==
    Transaction(st, r, ApplyUpdate(st.rep[r].doc, diff), depth)

\* for client in self.clients: client.doc.begin_transaction().apply_v1(diff)
RECURSIVE SyncLoop(_, _, _, _, _)
SyncLoop(st, pool, diff, i, depth) ==
    IF i > Len(st.clients[pool]) \/ st.overflow THEN st
    ELSE SyncLoop(Commit(st, st.clients[pool][i], diff, depth + 1), pool, diff, i + 1, depth)

\* mutant: the payload reaches the pool's first client only
ClientPool_sync_first(st, pool, diff, depth) ==
    IF depth > MaxDepth THEN [st EXCEPT !.overflow = TRUE]
    ELSE IF Len(st.clients[pool]) = 0 THEN Entered(st, diff, depth)
    ELSE Commit(Entered(st, diff, depth), st.clients[pool][1], diff, depth + 1)

\* ClientPool.sync
ClientPool_sync(st, pool, diff, depth) ==
    IF depth > MaxDepth THEN [st EXCEPT !.overflow = TRUE]
    ELSE SyncLoop(Entered(st, diff, depth), pool, diff, 1, depth)

\* ClientPool.create_client, the body of `if self.clients:` for the new
\* client n whose state vector is sv
Bootstrap(st, pool, n, sv) ==
    LET first == st.clients[pool][1]
        \* self.clients[0].doc.begin_transaction().diff_v1(new_client_state)
        diff == diff_v1(st.rep[first].doc, sv)
    IN \* client.doc.begin_transaction().apply_v1(diff)
       Commit(Commit(st, first, EmptyUpdate, 0), n, diff, 0)

\* ClientPool.create_client: the new client is appended before the
\* bootstrap and once more after it
ClientPool_create_client(st, pool) ==
    LET n == Len(st.rep) + 1
        s1 == [st EXCEPT !.rep = Append(@, SyncClient(pool)),
                         !.clients[pool] = Append(@, n)]
        \* client.doc.begin_transaction().state_vector_v1()
        sv == state_vector_v1(s1.rep[n].doc)
        s4 == IF Len(s1.clients[pool]) > 0
              THEN Bootstrap(Commit(s1, n, EmptyUpdate, 0), pool, n, sv)
              ELSE s1
    IN [s4 EXCEPT !.clients[pool] = Append(@, n)]

(***************************************************************************)
(* The pool as a state machine.  st is the handler state above; nOps       *)
(* counts the mutation calls made; lastCall records the call that led to   *)
(* the current state.                                                      *)
(***************************************************************************)
VARIABLES st, nOps, lastCall, tm, mm, lm

vars == <<st, nOps, lastCall, tm, mm, lm>>

rep == st.rep
clients == st.clients
calls == st.calls

Call(op, again) == [op |-> op, again |-> again]

\* the document already holds everything the payload carries
Applied(doc, diff) ==
    /\ diff.structs \subseteq (doc.items \cup doc.pstructs)
    /\ diff.ds \subseteq (doc.dels \cup doc.pds)

NoPools ==
    [rep |-> <<>>, clients |-> [p \in Pools |-> <<>>], calls |-> {}, overflow |-> FALSE,
     deep |-> 0]

\* the pool when a call is made from outside: no call of sync is under way
Outside(s) == [s EXCEPT !.deep = 0]

\* the Text Mirror and the Map Mirror checked on their own, before any event
TextStart ==
    [model |-> TextModel, idx |-> 0, prev |-> TextModel, last |-> <<>>,
     inserted |-> 0, skipped |-> 0, removed |-> 0, err |-> ""]

ListStart ==
    [model |-> ArrayModel, idx |-> 0, prev |-> ArrayModel, last |-> <<>>,
     inserted |-> 0, removed |-> 0, err |-> ""]

MapStart ==
    [model |-> MapModel, prev |-> MapModel, last |-> <<>>, again |-> FALSE, err |-> ""]

Init ==
    /\ st = NoPools
    /\ nOps = 0
    /\ lastCall = Call("init", FALSE)
    /\ tm = TextStart
    /\ mm = MapStart
    /\ lm = ListStart

\* the new client n of state s remembers the call that made it: the Mirror
\* (if it had one) and the document the pool's first client had when
\* create_client was called, whether the pool was empty then, the payloads
\* sync was called with during the call, and its own document at the return
Remember(s, pool, n) ==
    LET first == s.clients[pool][1]
    IN [s EXCEPT !.rep[n].boot =
           [made |-> TRUE,
            has |-> first # n /\ rep[first].bound,
            model |-> IF first # n /\ rep[first].bound THEN rep[first].model ELSE TextModel,
            doc |-> s.rep[n].doc,
            ref |-> IF first # n THEN rep[first].doc ELSE YDoc,
            alone |-> first = n,
            sent |-> s.calls \ calls]]

\* pool.create_client()
CreateClient(pool) ==
    /\ Len(rep) < MaxClients
    /\ st' = Remember(ClientPool_create_client(Outside(st), pool), pool, Len(rep) + 1)
    /\ lastCall' = Call("create_client", FALSE)
    /\ UNCHANGED <<nOps, tm, mm, lm>>

\* TextBinding(parent_doc=client.doc, ytext=client.doc.get_text(...)):
\* TextBinding.__init__ subscribes obs and starts from an empty TextModel
TextBinding_init(me) ==
    [me EXCEPT !.bound = TRUE, !.fresh = (me.doc.items = {}),
               !.model = TextModel, !.events = <<>>, !.logAtInit = Len(me.log)]

AttachBinding(r) ==
    /\ ~rep[r].bound
    /\ st' = [st EXCEPT !.rep[r] = TextBinding_init(@)]
    /\ lastCall' = Call("TextBinding", FALSE)
    /\ UNCHANGED <<nOps, tm, mm, lm>>

\* a mutation call of the binding: with doc.begin_transaction() as txn: <op>
Mutate(op, r, diff) ==
    /\ rep[r].bound
    /\ nOps < MaxOps
    /\ st' = Commit(Outside(st), r, diff, 0)
    /\ nOps' = nOps + 1
    /\ lastCall' = Call(op, FALSE)
    /\ UNCHANGED <<tm, mm, lm>>

\* TextBinding.insert(index, chunk)
TextInsert(r) ==
    \E index \in 0..Len(Visible(rep[r].doc)), chunk \in Chunks :
        Mutate("insert", r, YText_insert(rep[r].doc, r, index, chunk))

\* TextBinding.extend(chunk)
TextExtend(r) ==
    \E chunk \in Chunks :
        Mutate("extend", r, YText_insert(rep[r].doc, r, Len(Visible(rep[r].doc)), chunk))

\* TextBinding.delete(index)
TextDelete(r) ==
    \E index \in 0..(Len(Visible(rep[r].doc)) - 1) :
        Mutate("delete", r, YText_delete_range(rep[r].doc, index, 1))

\* TextBinding.delete_range(index, length)
TextDeleteRange(r) ==
    \E index \in 0..Len(Visible(rep[r].doc)) :
        \E length \in 0..(Len(Visible(rep[r].doc)) - index) :
            Mutate("delete_range", r, YText_delete_range(rep[r].doc, index, length))

\* pool.sync(diff) with a payload that some client reported earlier
PoolSync(pool, diff) ==
    /\ st' = ClientPool_sync(Outside(st), pool, diff, 0)
    /\ lastCall' = Call("sync", \A k \in 1..Len(clients[pool]) :
                                    Applied(rep[clients[pool][k]].doc, diff))
    /\ UNCHANGED <<nOps, tm, mm, lm>>

Next ==
    \/ CreateClient("A")
    \/ \E r \in 1..Len(rep) : AttachBinding(r)
    \/ \E r \in 1..Len(rep) : TextInsert(r)
    \/ \E r \in 1..Len(rep) : TextExtend(r)
    \/ \E r \in 1..Len(rep) : TextDelete(r)
    \/ \E r \in 1..Len(rep) : TextDeleteRange(r)

Spec == Init /\ [][Next]_vars

\* two pools of one client each, as two processes joined by a transport:
\* each client has its binding attached, the first has inserted "hi" and the
\* payload has been handed to the other pool
WireBind(s) == [s EXCEPT !.rep = [r \in 1..2 |-> TextBinding_init(s.rep[r])]]
WireShare(s, hi) == ClientPool_sync(Commit(s, 1, hi, 0), "B", hi, 0)
WireHi(s) == WireShare(s, YText_insert(s.rep[1].doc, 1, 0, <<"h", "i">>))

WireInit ==
    /\ st = WireHi(WireBind(ClientPool_create_client(
                                ClientPool_create_client(NoPools, "A"), "B")))
    /\ nOps = 0
    /\ lastCall = Call("init", FALSE)
    /\ tm = TextStart
    /\ mm = MapStart
    /\ lm = ListStart

WireNext ==
    \/ \E r \in 1..Len(rep) : TextInsert(r)
    \/ \E r \in 1..Len(rep) : TextDeleteRange(r)
    \/ \E pool \in Pools, diff \in calls : PoolSync(pool, diff)

SpecWire == WireInit /\ [][WireNext]_vars

(***************************************************************************)
(* A Text Mirror on its own: a TextModel that starts empty and is handed   *)
(* one event after the other, as TextBinding.obs hands them to it.         *)
(* tm.prev and tm.last are the model before the last event and that event, *)
(* tm.idx the cursor when the walk of that event ended; tm.inserted and    *)
(* tm.removed count the items the events said were inserted and deleted,   *)
(* tm.skipped those of tm.inserted whose delta took no branch of the walk. *)
(***************************************************************************)
\* events of character inserts, embedded values, retains and deletes
TextDeltas ==
    {Insert(Str(<<"a", "b">>), EmptyDict), Insert(Num(0), EmptyDict),
     Insert(Num(7), EmptyDict), Retain(1, EmptyDict), Delete(1)}
TextEvents == UNION {[1..n -> TextDeltas] : n \in 1..MaxDeltas}

\* events of character inserts, retains and deletes
CursorDeltas ==
    {Insert(Str(<<"a", "b", "c">>), EmptyDict), Insert(Str(<<"X">>), EmptyDict),
     Retain(1, EmptyDict), Delete(1)}
CursorEvents == UNION {[1..n -> CursorDeltas] : n \in 1..MaxDeltas}

\* the items a delta says it inserts and deletes
DeltaInserts(d) ==
    IF d.insert = PyNone THEN 0 ELSE IF d.insert.t = "str" THEN Len(d.insert.s) ELSE 1
DeltaDeletes(d) == IF d.delete = NoneInt THEN 0 ELSE d.delete
\* the items of an insert delta that `if delta.insert:` passes over
DeltaSkips(d) == IF Truthy(d.insert) THEN 0 ELSE DeltaInserts(d)

RECURSIVE EventInserts(_)
EventInserts(ev) == IF ev = <<>> THEN 0 ELSE DeltaInserts(Head(ev)) + EventInserts(Tail(ev))
RECURSIVE EventDeletes(_)
EventDeletes(ev) == IF ev = <<>> THEN 0 ELSE DeltaDeletes(Head(ev)) + EventDeletes(Tail(ev))
RECURSIVE EventSkips(_)
EventSkips(ev) == IF ev = <<>> THEN 0 ELSE DeltaSkips(Head(ev)) + EventSkips(Tail(ev))

\* model.apply_event(ev), as TextBinding.obs calls it
TextApply(ev) ==
    /\ tm.err = ""
    /\ tm.inserted + EventInserts(ev) <= MaxItems
    /\ tm.removed + EventDeletes(ev) <= MaxItems + MaxDeltas
    /\ LET w == apply_event(tm.model, ev)
       IN tm' = [model |-> [items |-> w.items, deleted |-> w.deleted],
                 idx |-> w.idx, prev |-> tm.model, last |-> ev,
                 inserted |-> tm.inserted + EventInserts(ev),
                 skipped |-> tm.skipped + EventSkips(ev),
                 removed |-> tm.removed + EventDeletes(ev),
                 err |-> w.err]
    /\ UNCHANGED <<st, nOps, lastCall, mm, lm>>

TextNext == \E ev \in TextEvents : TextApply(ev)

SpecText == Init /\ [][TextNext]_vars

CursorNext == \E ev \in CursorEvents : TextApply(ev)

\* events with deltas that have none, or more than one, of insert, retain
\* and delete: the Delta class accepts them
MalformedDeltas ==
    {Delta(PyNone, NoneInt, NoneInt, EmptyDict),
     Delta(Str(<<"a">>), NoneInt, 1, EmptyDict),
     Delta(PyNone, 1, 1, EmptyDict),
     Insert(Str(<<"a", "b">>), EmptyDict), Delete(1)}
MalformedEvents == UNION {[1..n -> MalformedDeltas] : n \in 1..MaxDeltas}

MalformedNext == \E ev \in MalformedEvents : TextApply(ev)

SpecMalformed == Init /\ [][MalformedNext]_vars

SpecCursor == Init /\ [][CursorNext]_vars

\* events of character inserts with attributes, of retains that format and
\* of retains that only move the cursor
Bold == {<<"bold", Bool(TRUE)>>, <<"color", Num(1)>>}
Recolor == {<<"color", Num(2)>>, <<"italic", Bool(TRUE)>>}
AttrDeltas ==
    {Insert(Str(<<"a", "b">>), Bold), Retain(1, EmptyDict), Retain(1, Recolor),
     Retain(2, Recolor)}
AttrEvents == UNION {[1..n -> AttrDeltas] : n \in 1..MaxDeltas}

AttrNext == \E ev \in AttrEvents : TextApply(ev)

SpecAttrs == Init /\ [][AttrNext]_vars

(***************************************************************************)
(* A Map Mirror on its own: a MapModel that starts empty and is handed one *)
(* change set after the other, or the last one once more.  mm.prev and     *)
(* mm.last are the model before the last call of obs and the change set of *)
(* that call; mm.again tells that the call repeated the one before it.     *)
(***************************************************************************)
MapKeys == {"k", "j"}
MapValues == {Num(1), YHandle("YMap")}

\* what a change set says of one key, before the old value is filled in
MapEntries ==
    {[action |-> a, newValue |-> v] : a \in {"add", "update"}, v \in MapValues}
        \cup {[action |-> "delete", newValue |-> PyNone]}

\* the change sets: one entry for each key of a non-empty set of keys, in any order
MapShapes ==
    {sh \in UNION {[1..n -> MapKeys \X MapEntries] : n \in 1..Cardinality(MapKeys)} :
        \A i \in DOMAIN sh, j \in DOMAIN sh : i # j => sh[i][1] # sh[j][1]}

\* the engine reports the value the key had: None for a key it adds
OldValue(model, key, action) ==
    IF action # "add" /\ key \in DictKeys(model.items)
    THEN DictGet(model.items, key) ELSE PyNone

ChangeSet(model, sh) ==
    [i \in DOMAIN sh |->
        <<sh[i][1], KeyChange(sh[i][2].action, OldValue(model, sh[i][1], sh[i][2].action),
                              sh[i][2].newValue)>>]

MapObs(keys, again) ==
    /\ mm.err = ""
    /\ LET w == MapBinding_obs(mm.model, keys)
       IN mm' = [model |-> [items |-> w.items, deleted |-> w.deleted],
                 prev |-> mm.model, last |-> keys, again |-> again, err |-> w.err]
    /\ UNCHANGED <<st, nOps, lastCall, tm, lm>>

\* binding.obs(event)
MapApply(sh) == MapObs(ChangeSet(mm.model, sh), FALSE)

\* binding.obs(event) with the event of the call before
MapReapply == mm.last # <<>> /\ ~mm.again /\ MapObs(mm.last, TRUE)

MapNext ==
    \/ \E sh \in MapShapes : MapApply(sh)
    \/ MapReapply

SpecMap == Init /\ [][MapNext]_vars

(***************************************************************************)
(* A List Mirror on its own: an ArrayModel that starts empty and is handed *)
(* one event after the other.  lm.prev, lm.last and lm.idx are the model   *)
(* before the last event, that event and the cursor when its walk ended;   *)
(* lm.inserted and lm.removed count the items the events said were         *)
(* inserted and deleted.                                                   *)
(***************************************************************************)
ListDeltas ==
    {Insert(List(<<Num(1)>>), EmptyDict),
     Insert(List(<<Num(0), YHandle("YText")>>), EmptyDict),
     Retain(1, EmptyDict), Delete(1)}
ListEvents == UNION {[1..n -> ListDeltas] : n \in 1..MaxDeltas}

ListDeltaInserts(d) == IF d.insert.t = "list" THEN Len(d.insert.s) ELSE 0
RECURSIVE ListEventInserts(_)
ListEventInserts(ev) ==
    IF ev = <<>> THEN 0 ELSE ListDeltaInserts(Head(ev)) + ListEventInserts(Tail(ev))

\* binding.obs(event)
ListApply(ev) ==
    /\ lm.err = ""
    /\ lm.inserted + ListEventInserts(ev) <= MaxItems
    /\ LET w == ArrayBinding_obs(lm.model, ev)
       IN lm' = [model |-> [items |-> w.items, deleted |-> w.deleted],
                 idx |-> w.idx, prev |-> lm.model, last |-> ev,
                 inserted |-> lm.inserted + ListEventInserts(ev),
                 removed |-> lm.removed + EventDeletes(ev),
                 err |-> w.err]
    /\ UNCHANGED <<st, nOps, lastCall, tm, mm>>

ListNext == \E ev \in ListEvents : ListApply(ev)

SpecList == Init /\ [][ListNext]_vars

(***************************************************************************)
(* The three Mirrors side by side.  They share no state, so a run feeds    *)
(* one of them from start to end; lastCall.op names the one it feeds.      *)
(***************************************************************************)
MirrorKinds == {"text", "list", "map"}

MirrorsInit ==
    /\ st = NoPools
    /\ nOps = 0
    /\ lastCall \in {Call(kind, FALSE) : kind \in MirrorKinds}
    /\ tm = TextStart
    /\ mm = MapStart
    /\ lm = ListStart

MirrorsNext ==
    \/ lastCall.op = "text" /\ TextNext
    \/ lastCall.op = "list" /\ ListNext
    \/ lastCall.op = "map" /\ MapNext

SpecMirrors == MirrorsInit /\ [][MirrorsNext]_vars

(***************************************************************************)
(* Properties of the pool.                                                 *)
(***************************************************************************)
Replicas == 1..Len(rep)
Synced(r) == rep[r].bound /\ rep[r].fresh
MirrorValues(r) == [k \in 1..Len(rep[r].model.items) |-> rep[r].model.items[k].value]
DocValues(r) == [k \in 1..Len(Visible(rep[r].doc)) |-> Str(<<Visible(rep[r].doc)[k].val>>)]

\* C1: between calls, the Mirrors of the clients of one pool whose bindings
\* were attached before any edit hold the same items, whichever client made
\* the mutation calls
C1_PoolMirrorsAgree ==
    \A r1 \in Replicas, r2 \in Replicas :
        (rep[r1].pool = rep[r2].pool /\ Synced(r1) /\ Synced(r2))
            => rep[r1].model.items = rep[r2].model.items

\* client 1 inserted "hi", client 2 of the same pool reads "hi"
C1_Witness ==
    /\ Len(rep) >= 2 /\ Synced(1) /\ Synced(2) /\ rep[1].pool = rep[2].pool
    /\ nOps = 1 /\ lastCall.op = "insert"
    /\ rep[1].doc.items # {} /\ \A i \in rep[1].doc.items : i.id[2] = 1
    /\ plain_text(rep[2].model) = <<"h", "i">>

\* C2: two clients that applied the same payloads, the last two in opposite
\* order, hold the same Mirror state, items and deleted
OppositeOrder(l1, l2) ==
    LET n == Len(l1)
    IN /\ n >= 2 /\ Len(l2) = n
       /\ SubSeq(l1, 1, n - 2) = SubSeq(l2, 1, n - 2)
       /\ l1[n - 1] = l2[n] /\ l1[n] = l2[n - 1] /\ l1[n] # l1[n - 1]

C2_OppositeOrderSameMirror ==
    \A r1 \in Replicas, r2 \in Replicas :
        (Synced(r1) /\ Synced(r2) /\ OppositeOrder(rep[r1].log, rep[r2].log))
            => rep[r1].model = rep[r2].model

\* what does hold of the two clients of C2: the same items
OppositeOrderSameItems ==
    \A r1 \in Replicas, r2 \in Replicas :
        (Synced(r1) /\ Synced(r2) /\ OppositeOrder(rep[r1].log, rep[r2].log))
            => rep[r1].model.items = rep[r2].model.items

\* C3: a pool.sync of a payload that every client of the pool holds already
\* leaves every Mirror, items and deleted, as it was
C3_ReapplyLeavesMirror ==
    [][(lastCall'.op = "sync" /\ lastCall'.again)
          => \A r \in Replicas : rep'[r].model = rep[r].model /\ rep'[r].events = rep[r].events]_vars

\* a payload was delivered again to clients whose Mirrors hold tombstones
C3_Witness ==
    /\ lastCall.op = "sync" /\ lastCall.again
    /\ \A r \in Replicas : rep[r].model.deleted # <<>>

\* C4: a client returned by create_client, once its binding is attached and
\* before anything else touches its document, has the Mirror state the
\* pool's first client had when create_client was called
C4_BootstrapMirrorEqualsReference ==
    \A r \in Replicas :
        (rep[r].boot.has /\ rep[r].bound /\ rep[r].doc = rep[r].boot.doc)
            => rep[r].model = rep[r].boot.model

C10_NoEmptyBroadcast == EmptyUpdate \notin calls /\ ~st.overflow

\* a mutation call that changed nothing was made and nothing was broadcast
C10_Witness ==
    /\ lastCall.op = "delete_range" /\ nOps = 1 /\ calls = {}
    /\ \E r \in Replicas : rep[r].bound

\* C15: the chain of sync calls that a call sets off is finite: sync is
\* entered with fewer calls of it under way than the pool has clients, and
\* never with more than MaxDepth
C15_FanOutTerminates ==
    /\ ~st.overflow
    /\ st.deep <= (IF Len(rep) = 0 THEN 0 ELSE Len(rep) - 1)

\* an insert has returned whose payload made a sibling change and report in
\* turn, so that sync was entered while a call of it was under way
C15_Witness ==
    /\ lastCall.op = "insert" /\ Len(rep) = 2 /\ st.deep = 1
    /\ \A r \in Replicas : rep[r].doc.items # {}

\* C16: when create_client returns, the new client's document holds every
\* item and every delete the first client's document held when the call was
\* made; a client made for an empty pool has an empty document and no
\* payload was passed to sync
C16_BootstrapHoldsReference ==
    \A r \in Replicas :
        rep[r].boot.made =>
            /\ rep[r].boot.ref.items \subseteq rep[r].boot.doc.items
            /\ rep[r].boot.ref.dels \subseteq rep[r].boot.doc.dels
            /\ rep[r].boot.alone => (rep[r].boot.doc = YDoc /\ rep[r].boot.sent = {})

\* create_client has returned a client for a pool whose first client held
\* an item and a delete, after one for the empty pool
C16_Witness ==
    /\ lastCall.op = "create_client" /\ Len(rep) = 2
    /\ rep[1].boot.made /\ rep[1].boot.alone
    /\ rep[2].boot.made /\ ~rep[2].boot.alone
    /\ rep[2].boot.ref.items # {} /\ rep[2].boot.ref.dels # {}
    /\ rep[2].doc = rep[2].boot.doc

\* the clients created for a pool, in join order
Joined(pool) == SelectSeq([k \in 1..Len(rep) |-> k], LAMBDA k : rep[k].pool = pool)

\* C14: a pool's client collection holds each client created for it exactly
\* once, in join order
C14_ClientsOnceInJoinOrder == \A pool \in Pools : clients[pool] = Joined(pool)

\* what does hold: the collection holds each client twice, in join order
ClientsListedTwice ==
    \A pool \in Pools :
        /\ Len(clients[pool]) = 2 * Len(Joined(pool))
        /\ \A k \in 1..Len(Joined(pool)) :
              clients[pool][2 * k - 1] = Joined(pool)[k] /\ clients[pool][2 * k] = Joined(pool)[k]

(***************************************************************************)
(* Properties of the Text Mirror.                                          *)
(***************************************************************************)
ItemValues(items) == [k \in 1..Len(items) |-> items[k].value]
CharItems(items) == SelectSeq(ItemValues(items), LAMBDA v : v.t = "str")

\* C5: after any events of inserts, retains and deletes applied without an
\* exception to a Text Mirror that started empty, len(items) is the number
\* of items inserted minus the number deleted, and plain_text is the
\* character-valued items in order
C5_LengthIsInsertedMinusDeleted ==
    tm.err = "" =>
        /\ Len(tm.model.items) = tm.inserted - tm.removed
        /\ plain_text(tm.model) = Concat([k \in 1..Len(CharItems(tm.model.items)) |->
                                            CharItems(tm.model.items)[k].s])

\* what does hold: the count is off by the embedded values the walk passed over
LengthButForSkipped ==
    tm.err = "" =>
        /\ Len(tm.model.items) = tm.inserted - tm.skipped - tm.removed
        /\ plain_text(tm.model) = Concat([k \in 1..Len(CharItems(tm.model.items)) |->
                                            CharItems(tm.model.items)[k].s])

\* the cursor walk as the specification words it, on whole sequences: an
\* insert splices one item per character in at the cursor and moves the
\* cursor past them, a retain moves the cursor, a delete cuts n items out at
\* the cursor and appends them to deleted; ok is lost when a retain or delete
\* would reach past the end
CursorStep(c, d) ==
    LET n == Len(c.items)
    IN IF d.insert # PyNone THEN
           [c EXCEPT !.items = SubSeq(c.items, 1, c.idx)
                                 \o [k \in 1..Len(d.insert.s) |->
                                        TextItem(Str(<<d.insert.s[k]>>), d.attributes)]
                                 \o SubSeq(c.items, c.idx + 1, n),
                     !.idx = c.idx + Len(d.insert.s)]
       ELSE IF d.retain # NoneInt THEN
           IF c.idx + d.retain > n THEN [c EXCEPT !.ok = FALSE]
           ELSE [c EXCEPT !.idx = c.idx + d.retain]
       ELSE
           IF c.idx + d.delete > n THEN [c EXCEPT !.ok = FALSE]
           ELSE [c EXCEPT !.items = SubSeq(c.items, 1, c.idx)
                                      \o SubSeq(c.items, c.idx + d.delete + 1, n),
                          !.deleted = c.deleted
                                      \o SubSeq(c.items, c.idx + 1, c.idx + d.delete)]

RECURSIVE CursorWalkFrom(_, _)
CursorWalkFrom(c, stream) ==
    IF stream = <<>> \/ ~c.ok THEN c
    ELSE CursorWalkFrom(CursorStep(c, Head(stream)), Tail(stream))

CursorWalk(model, stream) ==
    CursorWalkFrom([items |-> model.items, deleted |-> model.deleted,
                    idx |-> 0, ok |-> TRUE], stream)

\* C7: for every stream of character inserts, retains and deletes that stays
\* in range, apply_event leaves the items, the tombstones and the cursor the
\* cursor walk gives, and raises nothing
C7_ApplyIsCursorWalk ==
    LET ref == CursorWalk(tm.prev, tm.last)
    IN (tm.last # <<>> /\ ref.ok) =>
           /\ tm.err = ""
           /\ tm.model.items = ref.items
           /\ tm.model.deleted = ref.deleted
           /\ tm.idx = ref.idx

\* from items a, b, c the stream Retain(1), Delete(1), Insert("X") was applied
C7_Witness ==
    /\ ItemValues(tm.prev.items) = <<Str(<<"a">>), Str(<<"b">>), Str(<<"c">>)>>
    /\ tm.last = <<Retain(1, EmptyDict), Delete(1), Insert(Str(<<"X">>), EmptyDict)>>
    /\ ItemValues(tm.model.items) = <<Str(<<"a">>), Str(<<"X">>), Str(<<"c">>)>>
    /\ ItemValues(tm.model.deleted) = <<Str(<<"b">>)>>
    /\ tm.err = ""

(***************************************************************************)
(* Properties of the Map Mirror.                                           *)
(***************************************************************************)
DictAt(d, k) == {p \in d : p[1] = k}
ChangedKeys(keys) == {keys[i][1] : i \in DOMAIN keys}

\* C8: after a change set was applied without an exception, a key with a
\* delete entry is gone from items and deleted holds the value it had; a key
\* with an add or update entry holds the new value in items and what deleted
\* says of it is as before; the other keys are as before
C8_MapEntryEffects ==
    (mm.last # <<>> /\ mm.err = "") =>
        /\ \A i \in DOMAIN mm.last :
              LET k == mm.last[i][1]
                  change == mm.last[i][2]
              IN IF change.action = "delete"
                 THEN /\ DictAt(mm.model.items, k) = {}
                      /\ DictAt(mm.model.deleted, k) = {<<k, DictGet(mm.prev.items, k)>>}
                 ELSE /\ DictAt(mm.model.items, k) = {<<k, CastBinding(change.newValue)>>}
                      /\ DictAt(mm.model.deleted, k) = DictAt(mm.prev.deleted, k)
        /\ \A k \in MapKeys \ ChangedKeys(mm.last) :
              /\ DictAt(mm.model.items, k) = DictAt(mm.prev.items, k)
              /\ DictAt(mm.model.deleted, k) = DictAt(mm.prev.deleted, k)

\* from items {k: 1} the change set {k: delete} gave items {} and deleted {k: 1}
C8_Witness ==
    /\ mm.prev = [items |-> {<<"k", Num(1)>>}, deleted |-> EmptyDict]
    /\ mm.last = <<<<"k", KeyChange("delete", Num(1), PyNone)>>>>
    /\ mm.model = [items |-> EmptyDict, deleted |-> {<<"k", Num(1)>>}]
    /\ mm.err = "" /\ ~mm.again

\* reached as well: a key deleted earlier was added again and deleted still
\* holds the old value
DeletedStaysOnAdd ==
    /\ <<"k", Num(1)>> \in mm.prev.deleted /\ DictAt(mm.prev.items, "k") = {}
    /\ mm.last = <<<<"k", KeyChange("add", PyNone, YHandle("YMap"))>>>>
    /\ mm.model.items = {<<"k", CastBinding(YHandle("YMap"))>>}
    /\ <<"k", Num(1)>> \in mm.model.deleted

\* C9: the second of two calls of obs with the same change set raises nothing
C9_ReapplyIsSafe == mm.again => mm.err = ""

(***************************************************************************)
(* Properties of the Text Mirror and the List Mirror together.             *)
(***************************************************************************)
\* the items a delta inserts into a Mirror of the given kind
ItemsOf(kind, d) ==
    IF d.insert = PyNone THEN 0
    ELSE IF kind = "list" \/ d.insert.t = "str" THEN Len(d.insert.s) ELSE 1

\* some Retain or Delete step of the stream would take the cursor past the
\* end of a Mirror of len items, the cursor being at idx
RECURSIVE LeavesRange(_, _, _, _)
LeavesRange(kind, len, idx, stream) ==
    IF stream = <<>> THEN FALSE
    ELSE LET d == Head(stream)
         IN IF d.insert # PyNone
            THEN LeavesRange(kind, len + ItemsOf(kind, d), idx + ItemsOf(kind, d), Tail(stream))
            ELSE IF d.retain # NoneInt
            THEN idx + d.retain > len \/ LeavesRange(kind, len, idx + d.retain, Tail(stream))
            ELSE idx + d.delete > len \/ LeavesRange(kind, len - d.delete, idx, Tail(stream))

\* C11: a stream with a Retain or Delete step whose cursor would pass the
\* end of the Mirror ends in an error, in the Text Mirror and in the List
\* Mirror
C11_OutOfRangeIsSurfaced ==
    /\ LeavesRange("text", Len(tm.prev.items), 0, tm.last) => tm.err # ""
    /\ LeavesRange("list", Len(lm.prev.items), 0, lm.last) => lm.err # ""

\* what does hold: the Text Mirror raises IndexError on such a stream
TextOutOfRangeRaises ==
    LeavesRange("text", Len(tm.prev.items), 0, tm.last) => tm.err = "IndexError"

\* reached: a List Mirror took a Retain past its end and then an Insert,
\* and raised nothing
ListRetainPastEnd ==
    /\ lm.prev.items = <<>>
    /\ lm.last = <<Retain(1, EmptyDict), Insert(List(<<Num(1)>>), EmptyDict)>>
    /\ lm.model.items = <<Num(1)>> /\ lm.err = "" /\ lm.idx = 2

\* the number of insert, retain and delete that a delta has populated
Populated(d) ==
    (IF d.insert # PyNone THEN 1 ELSE 0) + (IF d.retain # NoneInt THEN 1 ELSE 0)
        + (IF d.delete # NoneInt THEN 1 ELSE 0)

\* C12: an event with a delta that has none, or more than one, of insert,
\* retain and delete populated ends in an error
C12_MalformedIsFatal ==
    (\E i \in DOMAIN tm.last : Populated(tm.last[i]) # 1) => tm.err # ""

\* reached: a delta with insert and delete both populated was applied as an
\* insert, one with nothing populated was passed over, and nothing was raised
MalformedPartlyApplied ==
    /\ tm.prev.items = <<>>
    /\ tm.last = <<Delta(Str(<<"a">>), NoneInt, 1, EmptyDict),
                   Delta(PyNone, NoneInt, NoneInt, EmptyDict)>>
    /\ ItemValues(tm.model.items) = <<Str(<<"a">>)>> /\ tm.model.deleted = <<>>
    /\ tm.err = ""

(***************************************************************************)
(* The tombstones of the Text Mirror and the List Mirror.                  *)
(***************************************************************************)
IsPrefix(s, t) == Len(s) <= Len(t) /\ SubSeq(t, 1, Len(s)) = s

\* how often x occurs in a sequence
Count(s, x) == Cardinality({k \in DOMAIN s : s[k] = x})

\* the values an event hands over for insertion, and the values of items
InsertedValues(kind, ev) ==
    Concat([k \in DOMAIN ev |->
              IF ev[k].insert = PyNone THEN <<>>
              ELSE IF kind = "list" THEN [j \in DOMAIN Elements(ev[k].insert) |->
                                            CastBinding(Elements(ev[k].insert)[j])]
              ELSE IF ev[k].insert.t = "str" THEN Elements(ev[k].insert)
              ELSE <<ev[k].insert>>])
ValuesOf(kind, items) == IF kind = "text" THEN ItemValues(items) ELSE items

\* the walk of a stream in which a Delete(n) cuts the n items at the cursor
\* out as one slice and appends the slice to deleted
RECURSIVE SliceWalk(_, _, _)
SliceWalk(kind, w, stream) ==
    IF stream = <<>> \/ w.err # "" THEN w
    ELSE LET d == Head(stream)
         IN IF d.insert = PyNone /\ d.retain = NoneInt /\ d.delete # NoneInt
            THEN IF w.idx + d.delete > Len(w.items) THEN [w EXCEPT !.err = "IndexError"]
                 ELSE SliceWalk(kind,
                                [w EXCEPT !.items = SubSeq(w.items, 1, w.idx)
                                             \o SubSeq(w.items, w.idx + d.delete + 1, Len(w.items)),
                                          !.deleted = @ \o SubSeq(w.items, w.idx + 1, w.idx + d.delete)],
                                Tail(stream))
            ELSE SliceWalk(kind, IF kind = "text" THEN ApplyDelta(w, d) ELSE ArrayDelta(w, d),
                           Tail(stream))

AppendOnly(kind, m) ==
    /\ IsPrefix(m.prev.deleted, m.model.deleted)
    /\ \A k \in DOMAIN m.model.items :
         Count(ValuesOf(kind, m.model.items), ValuesOf(kind, m.model.items)[k])
           <= Count(ValuesOf(kind, m.prev.items), ValuesOf(kind, m.model.items)[k])
              + Count(InsertedValues(kind, m.last), ValuesOf(kind, m.model.items)[k])
    /\ m.err = "" =>
         /\ Len(m.model.deleted) = Len(m.prev.deleted) + EventDeletes(m.last)
         /\ m.model.deleted = SliceWalk(kind, Walk(m.prev, 0, ""), m.last).deleted

\* C17: the deleted sequence of a Text or List Mirror before a stream is a
\* prefix of the one after it; a stream applied without an error appends,
\* for each Delete(n), the n items at the cursor in their order; and the
\* items after the stream are items from before it or items it inserted
C17_TombstonesAppendOnly ==
    /\ AppendOnly("text", tm)
    /\ AppendOnly("list", lm)

\* a Text Mirror a, b, a, b with tombstone a took Retain(1), Delete(1),
\* Delete(1)
C17_Witness ==
    /\ ItemValues(tm.prev.items) = <<Str(<<"b">>), Str(<<"a">>), Str(<<"b">>)>>
    /\ ItemValues(tm.prev.deleted) = <<Str(<<"a">>)>>
    /\ tm.last = <<Retain(1, EmptyDict), Delete(1), Delete(1)>>
    /\ ItemValues(tm.model.items) = <<Str(<<"b">>)>>
    /\ ItemValues(tm.model.deleted) = <<Str(<<"a">>), Str(<<"a">>), Str(<<"b">>)>>
    /\ tm.err = ""

\* reached: a List Mirror with a tombstone took two more
ListTombstonesAppended ==
    /\ lm.prev.deleted = <<Num(1)>>
    /\ lm.last = <<Delete(1), Delete(1)>>
    /\ Len(lm.model.deleted) = 3 /\ lm.err = ""

(***************************************************************************)
(* The attribute maps of the Text Mirror.                                  *)
(***************************************************************************)
\* the attributes a stream of retains merges into the item k places from
\* the cursor
RECURSIVE RetainedAttrs(_, _)
RetainedAttrs(stream, k) ==
    IF stream = <<>> THEN EmptyDict
    ELSE IF k < Head(stream).retain THEN Head(stream).attributes
    ELSE RetainedAttrs(Tail(stream), k - Head(stream).retain)

\* the map b merged into the map a: the keys of b with b's values, the
\* other keys of a with a's
Merged(a, b, attrs) ==
    /\ DictKeys(attrs) = DictKeys(a) \cup DictKeys(b)
    /\ \A key \in DictKeys(attrs) :
         DictGet(attrs, key) = IF key \in DictKeys(b) THEN DictGet(b, key) ELSE DictGet(a, key)

\* C18: a stream of retains applied without an error to a Text Mirror whose
\* items were inserted with attributes merges the attributes of each
\* Retain(count, B) into the count items from the cursor, leaves every
\* other attribute map as it was, and changes nothing else
C18_RetainMergesIntoItsItems ==
    (tm.last # <<>> /\ tm.err = "" /\ \A i \in DOMAIN tm.last : tm.last[i].retain # NoneInt) =>
        /\ ItemValues(tm.model.items) = ItemValues(tm.prev.items)
        /\ tm.model.deleted = tm.prev.deleted
        /\ \A k \in DOMAIN tm.model.items :
             Merged(tm.prev.items[k].attributes, RetainedAttrs(tm.last, k - 1),
                    tm.model.items[k].attributes)

\* a and b were inserted with the attributes Bold; Retain(1), Retain(1,
\* Recolor) has recoloured b and left a as it was
C18_Witness ==
    /\ tm.prev.items = <<TextItem(Str(<<"a">>), Bold), TextItem(Str(<<"b">>), Bold)>>
    /\ tm.last = <<Retain(1, EmptyDict), Retain(1, Recolor)>>
    /\ tm.model.items
         = <<TextItem(Str(<<"a">>), Bold),
             TextItem(Str(<<"b">>), {<<"bold", Bool(TRUE)>>, <<"color", Num(2)>>,
                                     <<"italic", Bool(TRUE)>>})>>
    /\ tm.err = ""

(***************************************************************************)
(* Embedded values in the Text Mirror.                                     *)
(***************************************************************************)
\* the event moves the cursor to at (by a Retain when at > 0) and then
\* inserts one embedded value
EmbedAt(ev, at) ==
    /\ Len(ev) = (IF at = 0 THEN 1 ELSE 2)
    /\ at > 0 => ev[1] = Retain(at, EmptyDict)
    /\ ev[Len(ev)].insert.t \notin {"none", "str"}

\* C19: an Insert of one embedded value, whatever the value, puts exactly
\* one TextItem with that value in at the cursor and moves the cursor on
\* by 1
C19_EmbedInsertsOneItem ==
    \A at \in 0..Len(tm.prev.items) :
        EmbedAt(tm.last, at) =>
            /\ tm.err = ""
            /\ tm.model.items
                 = SubSeq(tm.prev.items, 1, at)
                     \o <<TextItem(tm.last[Len(tm.last)].insert, tm.last[Len(tm.last)].attributes)>>
                     \o SubSeq(tm.prev.items, at + 1, Len(tm.prev.items))
            /\ tm.idx = at + 1

\* what does hold: a value that is true in a condition is inserted, one
\* that is false (0, False, an empty list or dict) leaves the items and
\* the cursor as they were
TruthyEmbedInsertsOneItem ==
    \A at \in 0..Len(tm.prev.items) :
        EmbedAt(tm.last, at) =>
            /\ tm.err = ""
            /\ Truthy(tm.last[Len(tm.last)].insert) =>
                 /\ Len(tm.model.items) = Len(tm.prev.items) + 1
                 /\ tm.model.items[at + 1].value = tm.last[Len(tm.last)].insert
                 /\ tm.idx = at + 1
            /\ ~Truthy(tm.last[Len(tm.last)].insert) =>
                 /\ ItemValues(tm.model.items) = ItemValues(tm.prev.items)
                 /\ tm.idx = at

\* reached: the embedded value 7 was inserted after a Retain(1)
EmbedInserted ==
    /\ tm.last = <<Retain(1, EmptyDict), Insert(Num(7), EmptyDict)>>
    /\ Len(tm.prev.items) = 2 /\ tm.model.items[2].value = Num(7) /\ tm.err = ""

(***************************************************************************)
(* Nested containers in the List Mirror and the Map Mirror.                *)
(***************************************************************************)
Handles == {"YText", "YArray", "YMap"}
Bindings == {"TextBinding", "ArrayBinding", "MapBinding"}

\* how many elements of a sequence of values have a type among kinds
CountOf(kinds, values) == Cardinality({k \in DOMAIN values : values[k].t \in kinds})

\* the elements the inserts of a List event hand over, as they come
HandedOver(ev) ==
    Concat([k \in DOMAIN ev |->
              IF ev[k].insert = PyNone THEN <<>> ELSE Elements(ev[k].insert)])

\* C20: no element of the items of a List Mirror and no value of the items
\* of a Map Mirror is a YText, YArray or YMap handle; each handle an event
\* inserted, added or updated without an error is in the items as a Binding
C20_NoRawHandleInItems ==
    /\ \A k \in DOMAIN lm.model.items : lm.model.items[k].t \notin Handles
    /\ \A p \in mm.model.items : p[2].t \notin Handles
    /\ (lm.err = "" /\ EventDeletes(lm.last) = 0) =>
         CountOf(Bindings, lm.model.items)
           = CountOf(Bindings, lm.prev.items) + CountOf(Handles, HandedOver(lm.last))
    /\ mm.err = "" =>
         \A i \in DOMAIN mm.last :
             (mm.last[i][2].action # "delete" /\ mm.last[i][2].newValue.t \in Handles) =>
                 /\ mm.last[i][1] \in DictKeys(mm.model.items)
                 /\ DictGet(mm.model.items, mm.last[i][1]).t \in Bindings

\* a List Mirror was handed an insert of 0 and a YText handle and holds the
\* handle as a TextBinding
C20_Witness ==
    /\ lm.last = <<Insert(List(<<Num(0), YHandle("YText")>>), EmptyDict)>>
    /\ lm.model.items = <<Num(0), [YHandle("YText") EXCEPT !.t = "TextBinding"]>>
    /\ lm.err = ""

\* reached: a Map Mirror was handed the add of a YMap handle and holds it
\* as a MapBinding
MapHandleStoredAsBinding ==
    /\ mm.last = <<<<"k", KeyChange("add", PyNone, YHandle("YMap"))>>>>
    /\ mm.model.items = {<<"k", [YHandle("YMap") EXCEPT !.t = "MapBinding"]>>}
    /\ mm.err = ""

====
